---- MODULE Spec2Model ----
(***************************************************************************)
(* Order ingestion pipelines of the Kamoaz repository.                     *)
(*                                                                         *)
(*   listing walkers  openseaSync.js, the two OpenSea variants of          *)
(*                    unnamed/part_000, the Magic Eden variants of         *)
(*                    unnamed/part_001 and unnamed/part_002                *)
(*   chain scanner    syncSeaportOrders.js                                 *)
(*                                                                         *)
(* A walker is a single async function: every action below is the code     *)
(* between two awaits.  The marketplace, the order store, the chain node   *)
(* and the backend are the environment: their answers are drawn with \E.   *)
(***************************************************************************)
EXTENDS Integers, Sequences, FiniteSets, TLC

\* ------------------------------------------------------------------ bounds
MaxItems == 2       \* items a listing source hands out during one run
MaxPages == 3       \* successful page fetches of one run
MaxClock == 1       \* distinct readings of the wall clock
MaxChunks == 5      \* sub-ranges of the longest block range scanned
MaxEvents == 2      \* log entries the chain hands out during one run
MaxSource == 3      \* listings a static listing source holds
MaxPageSize == 2    \* listings a static listing source puts on one page

\* ------------------------------------------------------- program constants
MAX_RETRIES == 3
RETRY_DELAY == 2000
BASE_DELAY_OPENSEA == 1200
BASE_DELAY_MAGICEDEN == 1500
ITEM_DELAY_MAGICEDEN == 1200
DECIMALS == 9
ETH_DECIMALS == 18
CHUNK == 10000
LIMIT_MAGICEDEN_SYNC == 50
LIMIT_MAGICEDEN == 5

\* --------------------------------------------------------- JavaScript values
Absent == "<undefined>"
NullV == "<null>"
EmptyString == ""

\* !!v for the values a cursor can take
TruthyNullOnly(v) == v # NullV
Truthy(v) == v \notin {Absent, NullV, EmptyString}

\* a || null
OrNull(v) == IF Truthy(v) THEN v ELSE NullV

\* String.prototype.toLowerCase on the addresses of the model
Lower(s) == IF s = "0xAB" THEN "0xab" ELSE s

\* ------------------------------------------------------------ the walkers
Kinds == {"openseaSync", "openseaLimit", "openseaPlain", "magicedenSync", "magicedenLimit"}

IsCursor(k) == k \in {"openseaSync", "openseaLimit", "openseaPlain"}

\* how fetchListings counts its retries
RetryStyle(k) ==
  CASE k \in {"openseaSync", "magicedenSync"} -> "countdown"
    [] k \in {"openseaLimit", "magicedenLimit"} -> "countup"
    [] OTHER -> "none"

Retries(k) == RetryStyle(k) # "none"

\* the loop of main: do { } while (cursor), or while (true) with its breaks
LoopStyle(k) == IF k \in {"openseaSync", "openseaPlain"} THEN "doWhile" ELSE "whileTrue"

\* the wait after each saveOrder in the rate-limited variants (0: none)
ItemDelay(k) ==
  CASE k = "openseaLimit" -> BASE_DELAY_OPENSEA
    [] k = "magicedenLimit" -> ITEM_DELAY_MAGICEDEN
    [] OTHER -> 0

\* the default value of fetchListings' second parameter
InitialRetry(k) == IF RetryStyle(k) = "countdown" THEN MAX_RETRIES ELSE 0

\* the retry parameter of main's next fetchListings call, if it went on from
\* where the last call stopped
RetryCarriedOver(k, r) == r
\* the retry parameter of main's next fetchListings call: main passes none, so
\* the default value
RetryOfNextCall(k, r) == InitialRetry(k)

\* the catch block's test
CanRetryOneMore(k, r) ==
  CASE RetryStyle(k) = "countdown" -> r >= 0
    [] RetryStyle(k) = "countup" -> r <= MAX_RETRIES
    [] OTHER -> FALSE
CanRetry(k, r) ==
  CASE RetryStyle(k) = "countdown" -> r > 0
    [] RetryStyle(k) = "countup" -> r < MAX_RETRIES
    [] OTHER -> FALSE

NextRetry(k, r) == IF RetryStyle(k) = "countdown" THEN r - 1 ELSE r + 1

\* the delay waited before the retry
RetryDelayMs(k, r) ==
  CASE k = "openseaLimit" -> BASE_DELAY_OPENSEA * (r + 1)
    [] k = "magicedenLimit" -> BASE_DELAY_MAGICEDEN * (r + 1)
    [] OTHER -> RETRY_DELAY

\* errors: the message of the failure and whether it is wrapped as fatal
NoError == [fatal |-> FALSE, msg |-> "none"]
FailMsgs == {"HTTP 500", "HTTP 429"}
Transient(m) == [fatal |-> FALSE, msg |-> m]

\* what fetchListings throws once it cannot retry
SurfacedError(k, e) ==
  IF RetryStyle(k) = "countup" THEN [fatal |-> TRUE, msg |-> e.msg] ELSE e

\* ------------------------------------------------------------ raw listings
\* the decimal digits of n
RECURSIVE DigitsOf(_)
DigitsOf(n) == IF n < 10 THEN << n >> ELSE Append(DigitsOf(n \div 10), n % 10)

\* the digit string of the raw integer amount m * 10^z, as the marketplace sends it
RawAmount(m, z) == DigitsOf(m) \o [i \in 1 .. z |-> 0]

\* price (current_price): the raw integer amount in base units, a digit string
RawListings ==
  { [order_hash |-> "h1", token |-> "t1", seller |-> "0xAB", price |-> RawAmount(1, 9)],
    [order_hash |-> "h2", token |-> "t1", seller |-> "0xab", price |-> RawAmount(1, 9)],
    [order_hash |-> "h3", token |-> "t2", seller |-> "0xcd", price |-> RawAmount(25, 17)] }

RECURSIVE SeqsUpTo(_, _)
SeqsUpTo(S, n) ==
  IF n = 0 THEN {<< >>}
  ELSE LET shorter == SeqsUpTo(S, n - 1)
       IN shorter \cup {Append(s, x) : s \in {t \in shorter : Len(t) = n - 1}, x \in S}

NextValues == {Absent, NullV, EmptyString, "c1"}

Min(a, b) == IF a < b THEN a ELSE b

\* the limit an offset walker sends with its request
Limit(k) == IF k = "magicedenSync" THEN LIMIT_MAGICEDEN_SYNC ELSE LIMIT_MAGICEDEN

\* a listing source that is not static: any page may follow any request
NoStaticSource == [list |-> << >>, size |-> 0]

\* the page a static source answers a request at offset off with: its listings
\* from position off on, src.size of them at most
StaticPage(src, off) ==
  IF off >= Len(src.list) THEN << >>
  ELSE SubSeq(src.list, off + 1, Min(off + src.size, Len(src.list)))

\* offset += listings.length, if the offset moved by one listing per page
NextOffsetByOne(off, len) == off + 1
\* offset += listings.length
NextOffset(off, len) == off + len

VARIABLES
  kind,        \* which walker runs
  wpc,         \* where main is
  cursor,      \* main's cursor (cursor walkers)
  offset,      \* main's offset (offset walkers)
  retry,       \* fetchListings' retry / retries parameter
  items,       \* the items of the current page not yet handed to saveOrder
  pageNext,    \* data.next of the current page
  pageLen,     \* listings.length of the current page
  total,       \* main's total
  err,         \* the error fetchListings threw to main
  exitCode,    \* process exit code (-1 while running)
  httpInFlight,\* HTTP fetch requests sent and not yet answered
  pending,     \* upserts sent to the store and not yet answered
  store,       \* the orders table, by orderHash
  idSeq,       \* nanoid ids handed out
  clock,       \* the wall clock
  attempts,    \* HTTP attempts of the current fetchListings call
  delays,      \* delays waited by the current fetchListings call
  lastFailure, \* message of the last failed attempt
  pageFetches, \* calls of fetchListings by main
  pagesOk,     \* pages received
  received,    \* items received
  upserts,     \* calls of saveOrder
  writeErrors, \* upserts the store answered with an error
  firstEmptyAt,     \* the page fetch that returned the first empty page (0: none)
  itemsBeforeEmpty, \* items received before the first empty page
  waited,      \* a delay (retry or per-item) has elapsed since the last HTTP request
  source,      \* the listings and the page size of a static listing source
  sentAt,      \* the cursor and offset the last HTTP request carried
  retriedBefore \* an earlier fetchListings call of this run needed a retry

VARIABLES
  spc,            \* where the scanner's main is
  rpcIdx,         \* initProvider's position in RPC_LIST
  provider,       \* index of the selected RPC endpoint (0: null)
  fromBlock,      \* FROM_BLOCK
  latestBlock,    \* main's latestBlock
  pass,           \* 1 OrderValidated, 2 OrderFulfilled, 3 OrderCancelled
  start,          \* queryInChunks' start
  end,            \* queryInChunks' end
  events,         \* the entries of the current chunk not yet worked off
  payload,        \* the POST sent to the backend and not yet answered
  totalActive,
  totalFulfilled,
  totalCancelled,
  scanExit,       \* process exit code (-1 while running)
  scanErr,        \* what ended the run early
  queried,        \* sub-ranges queried in this pass
  failedChunk,    \* the last sub-range of this pass whose query threw (0: none)
  chunkEvents,    \* entries the current chunk's query returned
  chunkPosts,     \* POSTs sent for the current chunk
  eventsSeen,     \* entries returned during the run
  probed,         \* initProvider: what happened at each RPC_LIST entry visited
  terminalSeen    \* order hashes of the OrderFulfilled / OrderCancelled entries returned

scannerVars ==
  << spc, rpcIdx, provider, fromBlock, latestBlock, pass, start, end, events, payload,
     totalActive, totalFulfilled, totalCancelled, scanExit, scanErr, queried,
     failedChunk, chunkEvents, chunkPosts, eventsSeen, probed,
     terminalSeen >>

walkerVars ==
  << kind, wpc, cursor, offset, retry, items, pageNext, pageLen, total, err, exitCode,
     httpInFlight, pending, attempts, delays, lastFailure, pageFetches,
     pagesOk, received, upserts, writeErrors, firstEmptyAt, itemsBeforeEmpty, waited,
     source, sentAt, retriedBefore >>
VARIABLES
  budget       \* what the environment does during the run: items, pages, events and
               \* chunks it hands out, reruns of the scanner, and whether calls fail

storeVars == << store, idSeq, clock >>
vars == << walkerVars, scannerVars, storeVars, budget >>

\* ---------------------------------------------------------------- saveOrder
\* a JavaScript number is kept as the decimal mant * 10^exp, mant without
\* trailing zeros; the amounts of the model are exact in double precision
NoPrice == [mant |-> 0, exp |-> 0]

RECURSIVE Pow10(_)
Pow10(n) == IF n = 0 THEN 1 ELSE 10 * Pow10(n - 1)

\* the number of zeros the digit string ends with
TrailingZeros(ds) ==
  LET tz[i \in 0 .. Len(ds)] == IF i = 0 \/ ds[i] # 0 THEN 0 ELSE 1 + tz[i - 1]
  IN tz[Len(ds)]

\* the integer the digit string denotes
DigitsValue(ds) ==
  LET v[i \in 0 .. Len(ds)] == IF i = 0 THEN 0 ELSE 10 * v[i - 1] + ds[i]
  IN v[Len(ds)]

\* parseFloat / Number of a digit string
ParseFloat(ds) ==
  LET z == TrailingZeros(ds)
      m == DigitsValue(SubSeq(ds, 1, Len(ds) - z))
  IN IF m = 0 THEN NoPrice ELSE [mant |-> m, exp |-> z]

\* x / Math.pow(10, d), x / 1e18
DivPow10(x, d) == IF x.mant = 0 THEN NoPrice ELSE [mant |-> x.mant, exp |-> x.exp - d]

\* the price left in base units
PriceOfRaw(order, d) == IF order.price = << >> THEN NoPrice ELSE ParseFloat(order.price)
\* order.price ? parseFloat(order.price) / Math.pow(10, DECIMALS) : null
PriceOf(order, d) ==
  IF order.price = << >> THEN NoPrice ELSE DivPow10(ParseFloat(order.price), d)

RECURSIVE ZeroString(_)
ZeroString(n) == IF n = 0 THEN "" ELSE "0" \o ZeroString(n - 1)

\* `${price}`: Number to string, for the numbers that print in plain notation
NumberToString(x) ==
  IF x.mant = 0 THEN "null"
  ELSE IF x.exp >= 0 THEN ToString(x.mant) \o ZeroString(x.exp)
  ELSE LET n == Len(DigitsOf(x.mant))
           f == 0 - x.exp
       IN IF n > f
          THEN ToString(x.mant \div Pow10(f)) \o "."
                 \o ZeroString(f - Len(DigitsOf(x.mant % Pow10(f))))
                 \o ToString(x.mant % Pow10(f))
          ELSE "0." \o ZeroString(f - n) \o ToString(x.mant)

\* the conflict key if the seller were taken as sent
OrderHashKeepingCase(k, order) ==
  IF IsCursor(k) THEN order.order_hash
  ELSE order.token \o "_" \o order.seller \o "_" \o NumberToString(PriceOf(order, DECIMALS))
\* the conflict key saveOrder writes
OrderHash(k, order) ==
  IF IsCursor(k) THEN order.order_hash
  ELSE order.token \o "_" \o Lower(order.seller) \o "_" \o NumberToString(PriceOf(order, DECIMALS))

\* the row saveOrder hands to upsert
OrderRow(k, order, id, now) ==
  [ id |-> id,
    tokenId |-> order.token,
    price |-> PriceOf(order, IF IsCursor(k) THEN ETH_DECIMALS ELSE DECIMALS),
    seller |-> Lower(order.seller),
    buyerAddress |-> NullV,
    seaportOrder |-> order,
    orderHash |-> OrderHash(k, order),
    onChain |-> FALSE,
    status |-> "active",
    createdAt |-> now,
    updatedAt |-> now ]

\* upsert(row, { onConflict: "orderHash" }): the row replaces the stored one
Upsert(st, row) == (row.orderHash :> row) @@ st

\* where main is after calling saveOrder: it awaits the upsert
AfterSaveIssueNoAwait(k) == "items"
AfterSaveIssue(k) == "awaitSave"

\* ------------------------------------------------------------ walker actions
\* fetchListings: send the HTTP request (first attempt or a retry)
FetchIssue ==
  /\ wpc = "fetch"
  /\ waited' = FALSE
  /\ wpc' = "awaitFetch"
  /\ httpInFlight' = httpInFlight + 1
  /\ attempts' = attempts + 1
  /\ sentAt' = [cursor |-> cursor, offset |-> offset]
  /\ UNCHANGED << kind, cursor, offset, retry, items, pageNext, pageLen, total, err,
                  exitCode, pending, delays, lastFailure, pageFetches, pagesOk,
                  received, upserts, writeErrors, firstEmptyAt, itemsBeforeEmpty, source, retriedBefore >>
  /\ UNCHANGED storeVars
  /\ UNCHANGED scannerVars
  /\ UNCHANGED budget

\* the page arrives: data.orders || [] (data.results || []), and the empty-page break
FetchOk ==
  /\ wpc = "awaitFetch"
  /\ httpInFlight > 0
  /\ pagesOk < budget.pages
  /\ \E present \in BOOLEAN, list \in SeqsUpTo(RawListings, budget.items - received), nxt \in NextValues :
       /\ present \/ list = << >>
       /\ IsCursor(kind) \/ nxt = Absent
       /\ source.size > 0 => (present /\ list = StaticPage(source, offset))
       /\ received + Len(list) <= budget.items
       /\ httpInFlight' = httpInFlight - 1
       /\ items' = list
       /\ pageLen' = Len(list)
       /\ pageNext' = nxt
       /\ pagesOk' = pagesOk + 1
       /\ received' = received + Len(list)
       /\ firstEmptyAt' = IF firstEmptyAt = 0 /\ list = << >> THEN pageFetches ELSE firstEmptyAt
       /\ itemsBeforeEmpty' = IF firstEmptyAt = 0 /\ list = << >> THEN received ELSE itemsBeforeEmpty
       /\ IF LoopStyle(kind) = "whileTrue" /\ list = << >>
          THEN /\ wpc' = "done"
               /\ exitCode' = 0
          ELSE /\ wpc' = "items"
               /\ UNCHANGED exitCode
  /\ retry' = RetryOfNextCall(kind, retry)
  /\ retriedBefore' = (retriedBefore \/ attempts > 1)
  /\ attempts' = 0
  /\ delays' = << >>
  /\ lastFailure' = "none"
  /\ UNCHANGED << kind, cursor, offset, total, err, pending, pageFetches, upserts,
                  writeErrors, waited, source, sentAt >>
  /\ UNCHANGED storeVars
  /\ UNCHANGED scannerVars
  /\ UNCHANGED budget

\* main's catch (main().catch in the plain variant) if it only logged the error
MainCatchSwallow(k) == [wpc |-> "done", exit |-> 0]
\* main's catch (main().catch in the plain variant): log, process.exit(1)
MainCatch(k) == [wpc |-> "failed", exit |-> 1]

\* the attempt fails (network error, non-2xx, bad JSON): the catch block
FetchFail ==
  /\ wpc = "awaitFetch"
  /\ httpInFlight > 0
  /\ \E m \in FailMsgs :
       /\ httpInFlight' = httpInFlight - 1
       /\ lastFailure' = m
       /\ IF CanRetry(kind, retry)
          THEN /\ wpc' = "retryWait"
               /\ UNCHANGED << err, exitCode >>
          ELSE /\ wpc' = MainCatch(kind).wpc
               /\ err' = SurfacedError(kind, Transient(m))
               /\ exitCode' = MainCatch(kind).exit
  /\ UNCHANGED << kind, cursor, offset, retry, items, pageNext, pageLen, total, pending,
                  attempts, delays, pageFetches, pagesOk, received, upserts, writeErrors,
                  firstEmptyAt, itemsBeforeEmpty, waited, source, sentAt, retriedBefore >>
  /\ UNCHANGED storeVars
  /\ UNCHANGED scannerVars
  /\ UNCHANGED budget

\* the retry delay elapses: return fetchListings(cursor, retry + 1)
RetryWait ==
  /\ wpc = "retryWait"
  /\ waited' = TRUE
  /\ wpc' = "fetch"
  /\ delays' = Append(delays, RetryDelayMs(kind, retry))
  /\ retry' = NextRetry(kind, retry)
  /\ UNCHANGED << kind, cursor, offset, items, pageNext, pageLen, total, err, exitCode,
                  httpInFlight, pending, attempts, lastFailure, pageFetches,
                  pagesOk, received, upserts, writeErrors, firstEmptyAt, itemsBeforeEmpty, source, sentAt, retriedBefore >>
  /\ UNCHANGED storeVars
  /\ UNCHANGED scannerVars
  /\ UNCHANGED budget

\* saveOrder up to its await: nanoid(), new Date(), the row, the upsert request
SaveIssue ==
  /\ wpc = "items"
  /\ items # << >>
  /\ \E now \in clock .. (IF clock < MaxClock THEN clock + 1 ELSE clock) :
       /\ clock' = now
       /\ idSeq' = idSeq + 1
       /\ pending' = Append(pending, OrderRow(kind, Head(items), idSeq + 1, now))
  /\ items' = Tail(items)
  /\ upserts' = upserts + 1
  /\ wpc' = AfterSaveIssue(kind)
  /\ UNCHANGED << kind, cursor, offset, retry, pageNext, pageLen, total, err, exitCode,
                  httpInFlight, attempts, delays, lastFailure, pageFetches,
                  pagesOk, received, writeErrors, firstEmptyAt, itemsBeforeEmpty, store, waited, source, sentAt, retriedBefore >>
  /\ UNCHANGED scannerVars
  /\ UNCHANGED budget

\* saveOrder after its await if a store error were thrown instead of logged
SaveThrowsOnError(k, error, tot) ==
  IF error
  THEN [wpc |-> "failed", total |-> tot, exit |-> 1]
  ELSE [wpc |-> IF ItemDelay(k) > 0 THEN "itemDelay" ELSE "items",
        total |-> IF ItemDelay(k) > 0 THEN tot ELSE tot + 1,
        exit |-> -1]
\* saveOrder after its await: { error } is logged either way and main goes on,
\* to the per-item delay or straight to total++
SaveReturn(k, error, tot) ==
  [wpc |-> IF ItemDelay(k) > 0 THEN "itemDelay" ELSE "items",
   total |-> IF ItemDelay(k) > 0 THEN tot ELSE tot + 1,
   exit |-> -1]

\* the store answers { error }
SaveDone ==
  /\ pending # << >>
  /\ \E error \in BOOLEAN :
       /\ error => budget.faults
       /\ store' = IF error THEN store ELSE Upsert(store, Head(pending))
       /\ writeErrors' = IF error THEN writeErrors + 1 ELSE writeErrors
       /\ IF wpc = "awaitSave"
          THEN LET r == SaveReturn(kind, error, total)
               IN /\ wpc' = r.wpc
                  /\ total' = r.total
                  /\ exitCode' = r.exit
          ELSE UNCHANGED << wpc, total, exitCode >>
  /\ pending' = Tail(pending)
  /\ UNCHANGED << kind, cursor, offset, retry, items, pageNext, pageLen, err,
                  httpInFlight, attempts, delays, lastFailure, pageFetches,
                  pagesOk, received, upserts, firstEmptyAt, itemsBeforeEmpty, idSeq, clock, waited, source, sentAt, retriedBefore >>
  /\ UNCHANGED scannerVars
  /\ UNCHANGED budget

\* the per-item delay of the rate-limited variants elapses
ItemWait ==
  /\ wpc = "itemDelay"
  /\ waited' = TRUE
  /\ wpc' = "items"
  /\ total' = total + 1
  /\ UNCHANGED << kind, cursor, offset, retry, items, pageNext, pageLen, err, exitCode,
                  httpInFlight, pending, attempts, delays, lastFailure,
                  pageFetches, pagesOk, received, upserts, writeErrors, firstEmptyAt,
                  itemsBeforeEmpty, source, sentAt, retriedBefore >>
  /\ UNCHANGED storeVars
  /\ UNCHANGED scannerVars
  /\ UNCHANGED budget

\* whether main loops once more, given the page it has just worked off
LoopsAgain(k, nxt) == IF IsCursor(k) THEN Truthy(OrNull(nxt)) ELSE TRUE

\* after the for loop: advance the pagination token, test the loop condition
PageEnd ==
  /\ wpc = "items"
  /\ items = << >>
  /\ cursor' = IF IsCursor(kind)
               THEN (IF LoopStyle(kind) = "doWhile" THEN OrNull(pageNext) ELSE pageNext)
               ELSE cursor
  /\ offset' = IF IsCursor(kind) THEN offset ELSE NextOffset(offset, pageLen)
  /\ IF LoopsAgain(kind, pageNext)
     THEN /\ wpc' = "fetch"
          /\ pageFetches' = pageFetches + 1
          /\ UNCHANGED exitCode
     ELSE /\ wpc' = "done"
          /\ exitCode' = 0
          /\ UNCHANGED pageFetches
  /\ UNCHANGED << kind, retry, attempts, delays, lastFailure, items, pageNext, pageLen, total, err, httpInFlight, pending,
                  pagesOk, received, upserts, writeErrors,
                  firstEmptyAt, itemsBeforeEmpty, waited, source, sentAt, retriedBefore >>
  /\ UNCHANGED storeVars
  /\ UNCHANGED scannerVars
  /\ UNCHANGED budget

WalkerNext ==
  \/ FetchIssue
  \/ FetchOk
  \/ FetchFail
  \/ RetryWait
  \/ SaveIssue
  \/ SaveDone
  \/ ItemWait
  \/ PageEnd

\* ------------------------------------------------------------ chain scanner
RPC_LIST_LEN == 4

FromBlocks == {0, 7}
LatestBlocks(n) == {3, CHUNK + 1, n * (CHUNK + 1) - 1}

\* the statuses that end an order's life
Terminal == {"fulfilled", "cancelled"}

\* the statuses of the passes if the OrderValidated pass came last
PassStatusActiveLast(p) ==
  CASE p = 1 -> "fulfilled"
    [] p = 2 -> "cancelled"
    [] OTHER -> "active"
PassStatus(p) ==
  CASE p = 1 -> "active"
    [] p = 2 -> "fulfilled"
    [] OTHER -> "cancelled"

\* the entries queryFilter can return for [st, en]: decoded ones, and ones whose
\* decoding failed (ethers leaves args unset)
ChainEvents(st, en) ==
  {[decoded |-> TRUE, orderHash |-> h, blockNumber |-> st] : h \in {"h1", "h2"}}
    \cup {[decoded |-> FALSE, orderHash |-> Absent, blockNumber |-> en]}

NoPayload ==
  [orderHash |-> Absent, status |-> "none", sellerAddress |-> NullV,
   buyerAddress |-> NullV, onChainBlock |-> -1]

\* the payload a chunk callback builds from ev (args = ev.args || {})
BuildPayload(p, ev) ==
  [ orderHash |-> IF ev.decoded THEN ev.orderHash ELSE Absent,
    status |-> PassStatus(p),
    sellerAddress |-> IF ev.decoded THEN Lower("0xAB") ELSE NullV,
    buyerAddress |-> IF ev.decoded /\ p = 2 THEN Lower("0xcd") ELSE NullV,
    onChainBlock |-> ev.blockNumber ]

\* the backend behind POST /api/order: an upsert by orderHash that keeps the
\* stored id and createdAt; a payload without orderHash stores nothing
BackendUpsert(st, pl, id, now) ==
  IF pl.orderHash = Absent THEN st
  ELSE LET old == pl.orderHash \in DOMAIN st
       IN (pl.orderHash :>
             [ id |-> IF old THEN st[pl.orderHash].id ELSE id,
               tokenId |-> NullV,
               price |-> NoPrice,
               seller |-> pl.sellerAddress,
               buyerAddress |-> pl.buyerAddress,
               seaportOrder |-> NullV,
               orderHash |-> pl.orderHash,
               onChain |-> TRUE,
               status |-> pl.status,
               createdAt |-> IF old THEN st[pl.orderHash].createdAt ELSE now,
               updatedAt |-> now ]) @@ st

\* start = end + 1, if it stayed on the block just queried
NextStartOnEnd(en) == en
\* start = end + 1
NextStart(en) == en + 1

\* queryInChunks after a callback threw: without the catch the error ends main
ChunkNoCatch(st, en) == [spc |-> "failed", start |-> st, exit |-> 1, why |-> "chunk"]
\* queryInChunks after a callback threw: catch, log, start = end + 1
ChunkCatch(st, en) == [spc |-> "chunk", start |-> NextStart(en), exit |-> -1, why |-> "none"]

\* the env check at module load
ScanEnvCheck ==
  /\ spc = "env"
  /\ \E missing \in BOOLEAN :
       /\ missing => budget.faults
       /\ IF missing
          THEN /\ spc' = "failed"
               /\ scanExit' = 1
               /\ scanErr' = "env"
          ELSE /\ spc' = "probe"
               /\ UNCHANGED << scanExit, scanErr >>
  /\ UNCHANGED << rpcIdx, provider, fromBlock, latestBlock, pass, start, end, events,
                  payload, totalActive, totalFulfilled, totalCancelled, queried,
                  failedChunk, chunkEvents, chunkPosts, eventsSeen, probed, terminalSeen >>
  /\ UNCHANGED storeVars
  /\ UNCHANGED walkerVars
  /\ UNCHANGED budget

\* if (!provider) after the loop
ProviderNeverMissing(prov) == FALSE
ProviderMissing(prov) == prov = 0

\* one turn of initProvider's loop at entry i: provider = p and break on a live
\* endpoint, otherwise the next entry; after the last entry the test of provider
ProbeStepNoBreak(ok, i, prov) ==
  LET p == IF ok THEN i ELSE prov
  IN [provider |-> p, rpcIdx |-> i + 1,
      spc |-> IF i < RPC_LIST_LEN THEN "probe"
              ELSE IF ProviderMissing(p) THEN "failed" ELSE "latest"]
ProbeStep(ok, i, prov) ==
  IF ok
  THEN [provider |-> i, rpcIdx |-> i, spc |-> "latest"]
  ELSE [provider |-> prov, rpcIdx |-> i + 1,
        spc |-> IF i < RPC_LIST_LEN THEN "probe"
                ELSE IF ProviderMissing(prov) THEN "failed" ELSE "latest"]

\* initProvider: one turn of the loop over RPC_LIST, and the test after it
ProbeRpc ==
  /\ spc = "probe"
  /\ \E unset \in BOOLEAN, ok \in BOOLEAN :
       /\ unset => rpcIdx = 1
       /\ unset => ~ok
       /\ ok \/ budget.faults
       /\ probed' = Append(probed, IF unset THEN "unset" ELSE IF ok THEN "ok" ELSE "failed")
       /\ LET r == ProbeStep(ok, rpcIdx, provider)
          IN /\ provider' = r.provider
             /\ rpcIdx' = r.rpcIdx
             /\ spc' = r.spc
             /\ IF r.spc = "failed"
                THEN /\ scanExit' = 1
                     /\ scanErr' = "rpc"
                ELSE UNCHANGED << scanExit, scanErr >>
  /\ UNCHANGED << fromBlock, latestBlock, pass, start, end, events, payload, totalActive,
                  totalFulfilled, totalCancelled, queried, failedChunk, chunkEvents,
                  chunkPosts, eventsSeen, terminalSeen >>
  /\ UNCHANGED storeVars
  /\ UNCHANGED walkerVars
  /\ UNCHANGED budget

\* main: provider.getBlockNumber(), then the first pass starts at FROM_BLOCK
GetLatest ==
  /\ spc = "latest"
  /\ probed' = << >>
  /\ \/ /\ \E b \in LatestBlocks(budget.chunks) : latestBlock' = b
        /\ spc' = "chunk"
        /\ start' = fromBlock
        /\ UNCHANGED << scanExit, scanErr >>
     \/ /\ budget.faults
        /\ spc' = "failed"
        /\ scanExit' = 1
        /\ scanErr' = "latestBlock"
        /\ UNCHANGED << latestBlock, start >>
  /\ UNCHANGED << rpcIdx, provider, fromBlock, pass, end, events, payload, totalActive,
                  totalFulfilled, totalCancelled, queried, failedChunk, chunkEvents,
                  chunkPosts, eventsSeen, terminalSeen >>
  /\ UNCHANGED storeVars
  /\ UNCHANGED walkerVars
  /\ UNCHANGED budget

\* queryInChunks: the loop test, end, and the callback up to queryFilter
ChunkBegin ==
  /\ spc = "chunk"
  /\ start <= latestBlock
  /\ end' = Min(start + CHUNK, latestBlock)
  /\ queried' = Append(queried, << start, end' >>)
  /\ chunkEvents' = 0
  /\ chunkPosts' = 0
  /\ spc' = "query"
  /\ UNCHANGED << rpcIdx, provider, fromBlock, latestBlock, pass, start, events, payload,
                  totalActive, totalFulfilled, totalCancelled, scanExit, scanErr,
                  failedChunk, eventsSeen, probed, terminalSeen >>
  /\ UNCHANGED storeVars
  /\ UNCHANGED walkerVars
  /\ UNCHANGED budget

\* queryFilter returns the chunk's entries
QueryOk ==
  /\ spc = "query"
  /\ \E evs \in SeqsUpTo(ChainEvents(start, end), budget.events - eventsSeen) :
       /\ events' = evs
       /\ chunkEvents' = Len(evs)
       /\ eventsSeen' = eventsSeen + Len(evs)
       /\ terminalSeen' =
            IF PassStatus(pass) \in Terminal
            THEN terminalSeen \cup {evs[i].orderHash : i \in {j \in 1 .. Len(evs) : evs[j].decoded}}
            ELSE terminalSeen
  /\ spc' = "events"
  /\ UNCHANGED << rpcIdx, provider, fromBlock, latestBlock, pass, start, end, payload,
                  totalActive, totalFulfilled, totalCancelled, scanExit, scanErr, queried,
                  failedChunk, chunkPosts, probed >>
  /\ UNCHANGED storeVars
  /\ UNCHANGED walkerVars
  /\ UNCHANGED budget

\* queryFilter throws: the callback throws into queryInChunks
QueryFail ==
  /\ spc = "query"
  /\ failedChunk' = Len(queried)
  /\ LET c == ChunkCatch(start, end)
     IN /\ spc' = c.spc
        /\ start' = c.start
        /\ scanExit' = c.exit
        /\ scanErr' = c.why
  /\ UNCHANGED << rpcIdx, provider, fromBlock, latestBlock, pass, end, events, payload,
                  totalActive, totalFulfilled, totalCancelled, queried, chunkEvents,
                  chunkPosts, eventsSeen, probed, terminalSeen >>
  /\ UNCHANGED storeVars
  /\ UNCHANGED walkerVars
  /\ UNCHANGED budget

\* the callback's for loop: build the payload of the next entry and POST it
PostIssue ==
  /\ spc = "events"
  /\ events # << >>
  /\ payload' = BuildPayload(pass, Head(events))
  /\ events' = Tail(events)
  /\ chunkPosts' = chunkPosts + 1
  /\ spc' = "awaitPost"
  /\ UNCHANGED << rpcIdx, provider, fromBlock, latestBlock, pass, start, end, totalActive,
                  totalFulfilled, totalCancelled, scanExit, scanErr, queried, failedChunk,
                  chunkEvents, eventsSeen, probed, terminalSeen >>
  /\ UNCHANGED storeVars
  /\ UNCHANGED walkerVars
  /\ UNCHANGED budget

\* postOrderEvent returns true (2xx) or false (non-2xx, or fetch threw)
PostDone ==
  /\ spc = "awaitPost"
  /\ \E outcome \in (IF budget.faults THEN {"ok", "rejected", "error"} ELSE {"ok"}) :
       IF outcome = "ok"
       THEN /\ \E now \in clock .. (IF clock < MaxClock THEN clock + 1 ELSE clock) :
                 /\ clock' = now
                 /\ store' = BackendUpsert(store, payload, idSeq + 1, now)
            /\ idSeq' = IF payload.orderHash = Absent \/ payload.orderHash \in DOMAIN store
                        THEN idSeq ELSE idSeq + 1
            /\ totalActive' = IF pass = 1 THEN totalActive + 1 ELSE totalActive
            /\ totalFulfilled' = IF pass = 2 THEN totalFulfilled + 1 ELSE totalFulfilled
            /\ totalCancelled' = IF pass = 3 THEN totalCancelled + 1 ELSE totalCancelled
       ELSE UNCHANGED << totalActive, totalFulfilled, totalCancelled, store, idSeq, clock >>
  /\ payload' = NoPayload
  /\ spc' = "events"
  /\ UNCHANGED << rpcIdx, provider, fromBlock, latestBlock, pass, start, end, events,
                  scanExit, scanErr, queried, failedChunk, chunkEvents, chunkPosts,
                  eventsSeen, probed, terminalSeen >>
  /\ UNCHANGED walkerVars
  /\ UNCHANGED budget

\* the callback returns: start = end + 1
ChunkEnd ==
  /\ spc = "events"
  /\ events = << >>
  /\ start' = NextStart(end)
  /\ spc' = "chunk"
  /\ UNCHANGED << rpcIdx, provider, fromBlock, latestBlock, pass, end, events, payload,
                  totalActive, totalFulfilled, totalCancelled, scanExit, scanErr, queried,
                  failedChunk, chunkEvents, chunkPosts, eventsSeen, probed, terminalSeen >>
  /\ UNCHANGED storeVars
  /\ UNCHANGED walkerVars
  /\ UNCHANGED budget

\* the pass main starts once the queryInChunks call of pass p has returned
PassAfterSkipping(p) == 3
PassAfter(p) == p + 1

\* queryInChunks returns: the next pass starts, or main logs the totals and ends
PassEnd ==
  /\ spc = "chunk"
  /\ start > latestBlock
  /\ IF pass < 3
     THEN /\ pass' = PassAfter(pass)
          /\ start' = fromBlock
          /\ queried' = << >>
          /\ failedChunk' = 0
          /\ UNCHANGED << spc, scanExit >>
     ELSE /\ spc' = "done"
          /\ scanExit' = 0
          /\ UNCHANGED << pass, start, queried, failedChunk >>
  /\ UNCHANGED << rpcIdx, provider, fromBlock, latestBlock, end, events, payload,
                  totalActive, totalFulfilled, totalCancelled, scanErr, chunkEvents,
                  chunkPosts, eventsSeen, probed, terminalSeen >>
  /\ UNCHANGED storeVars
  /\ UNCHANGED walkerVars
  /\ UNCHANGED budget

ScannerNext ==
  \/ ScanEnvCheck
  \/ ProbeRpc
  \/ GetLatest
  \/ ChunkBegin
  \/ QueryOk
  \/ QueryFail
  \/ PostIssue
  \/ PostDone
  \/ ChunkEnd
  \/ PassEnd

\* ------------------------------------------------------------------ the runs
EmptyStore == [h \in {} |-> NoError]

WalkerAt(pc) ==
  /\ wpc = pc
  /\ kind \in (IF pc = "off" THEN {"openseaSync"} ELSE Kinds)
  /\ cursor = NullV
  /\ offset = 0
  /\ retry = InitialRetry(kind)
  /\ items = << >>
  /\ pageNext = Absent
  /\ pageLen = 0
  /\ total = 0
  /\ err = NoError
  /\ exitCode = -1
  /\ httpInFlight = 0
  /\ pending = << >>
  /\ attempts = 0
  /\ delays = << >>
  /\ lastFailure = "none"
  /\ pageFetches = 1
  /\ pagesOk = 0
  /\ received = 0
  /\ upserts = 0
  /\ writeErrors = 0
  /\ firstEmptyAt = 0
  /\ itemsBeforeEmpty = 0
  /\ waited = FALSE
  /\ sentAt = [cursor |-> NullV, offset |-> 0]
  /\ retriedBefore = FALSE

ScannerAt(pc) ==
  /\ spc = pc
  /\ rpcIdx = 1
  /\ provider = 0
  /\ fromBlock \in (IF pc = "off" THEN {0} ELSE FromBlocks)
  /\ latestBlock = 0
  /\ pass = 1
  /\ start = 0
  /\ end = 0
  /\ events = << >>
  /\ payload = NoPayload
  /\ totalActive = 0
  /\ totalFulfilled = 0
  /\ totalCancelled = 0
  /\ scanExit = -1
  /\ scanErr = "none"
  /\ queried = << >>
  /\ failedChunk = 0
  /\ chunkEvents = 0
  /\ chunkPosts = 0
  /\ eventsSeen = 0
  /\ probed = << >>
  /\ terminalSeen = {}

StoreInit ==
  /\ store = EmptyStore
  /\ idSeq = 0
  /\ clock = 0

FullBudget ==
  [items |-> MaxItems, pages |-> MaxPages, events |-> MaxEvents, chunks |-> MaxChunks,
   reruns |-> 0, faults |-> TRUE]

\* one run of a listing walker
InitWalker ==
  /\ StoreInit
  /\ source = NoStaticSource
  /\ budget = FullBudget
  /\ WalkerAt("fetch")
  /\ ScannerAt("off")

\* one run of the chain scanner
InitScanner ==
  /\ StoreInit
  /\ source = NoStaticSource
  /\ budget = FullBudget
  /\ WalkerAt("off")
  /\ ScannerAt("env")

\* one run of one pipeline
Init == InitWalker \/ InitScanner

Next == WalkerNext \/ ScannerNext

SpecWalker == InitWalker /\ [][WalkerNext]_vars

SpecScanner == InitScanner /\ [][ScannerNext]_vars

Spec == Init /\ [][Next]_vars

\* one run of the chain scanner in which main is never left waiting forever:
\* every awaited call (probe, query, POST) eventually returns or throws; the
\* setup and the POSTs succeed, any chunk query may throw
InitScannerLive ==
  /\ StoreInit
  /\ source = NoStaticSource
  /\ budget = [FullBudget EXCEPT !.faults = FALSE, !.events = 1]
  /\ WalkerAt("off")
  /\ ScannerAt("env")

SpecScannerLive == InitScannerLive /\ [][ScannerNext]_vars /\ WF_vars(ScannerNext)

\* one run of the chain scanner, the only writer of the store, in which no
\* configuration is missing, no probe or query throws and every POST succeeds
InitScannerClean ==
  /\ StoreInit
  /\ source = NoStaticSource
  /\ budget = [FullBudget EXCEPT !.faults = FALSE]
  /\ WalkerAt("off")
  /\ ScannerAt("env")

NextScannerClean ==
  \/ ScanEnvCheck
  \/ ProbeRpc
  \/ GetLatest
  \/ ChunkBegin
  \/ QueryOk
  \/ PostIssue
  \/ PostDone
  \/ ChunkEnd
  \/ PassEnd

SpecScannerClean == InitScannerClean /\ [][NextScannerClean]_vars

\* one run of an offset walker against a static listing source, in which every
\* awaited call eventually returns or throws
StaticBudget ==
  [items |-> MaxSource, pages |-> MaxSource + 1, events |-> 0, chunks |-> 1,
   reruns |-> 0, faults |-> TRUE]

\* the listings a static source holds: the first n of h1, h2, h3, h1, ...
SourceListings(n) ==
  [i \in 1 .. n |->
     CHOOSE r \in RawListings : r.order_hash = "h" \o ToString(((i - 1) % 3) + 1)]

InitStatic ==
  /\ StoreInit
  /\ budget = StaticBudget
  /\ WalkerAt("fetch")
  /\ ~IsCursor(kind)
  /\ source \in [list : {SourceListings(n) : n \in 0 .. MaxSource},
                  size : 1 .. Min(Limit(kind), MaxPageSize)]
  /\ ScannerAt("off")

SpecStatic == InitStatic /\ [][WalkerNext]_vars /\ WF_vars(WalkerNext)

\* -------------------------------------------- both pipelines on one store
\* the scanner is started again after a finished run
ScannerRerun ==
  /\ spc = "done"
  /\ budget.reruns > 0
  /\ budget' = [budget EXCEPT !.reruns = @ - 1]
  /\ spc' = "env"
  /\ rpcIdx' = 1
  /\ provider' = 0
  /\ latestBlock' = 0
  /\ pass' = 1
  /\ start' = 0
  /\ end' = 0
  /\ totalActive' = 0
  /\ totalFulfilled' = 0
  /\ totalCancelled' = 0
  /\ scanExit' = -1
  /\ queried' = << >>
  /\ failedChunk' = 0
  /\ chunkEvents' = 0
  /\ chunkPosts' = 0
  /\ eventsSeen' = 0
  /\ terminalSeen' = {}
  /\ UNCHANGED << fromBlock, events, payload, scanErr, probed >>
  /\ UNCHANGED storeVars
  /\ UNCHANGED walkerVars

SmallBudget ==
  [items |-> 1, pages |-> 1, events |-> 1, chunks |-> 1, reruns |-> 1, faults |-> FALSE]

\* a listing walker and the chain scanner run side by side on the same store,
\* the scanner twice, with no call failing
InitStore ==
  /\ StoreInit
  /\ source = NoStaticSource
  /\ budget = SmallBudget
  /\ WalkerAt("fetch")
  /\ kind \in {"openseaSync", "magicedenLimit"}
  /\ ScannerAt("env")
  /\ fromBlock = 0

NextStore ==
  \/ FetchIssue
  \/ FetchOk
  \/ SaveIssue
  \/ SaveDone
  \/ ItemWait
  \/ PageEnd
  \/ ScanEnvCheck
  \/ ProbeRpc
  \/ GetLatest
  \/ ChunkBegin
  \/ QueryOk
  \/ PostIssue
  \/ PostDone
  \/ ChunkEnd
  \/ PassEnd
  \/ ScannerRerun

SpecStore == InitStore /\ [][NextStore]_vars

\* ------------------------------------------------------------------ claims
\* C1: once the stored record of an identifier is fulfilled or cancelled, no
\* later write turns its status back to active.
C1_TerminalStatusKept ==
  [][\A h \in DOMAIN store :
       store[h].status \in Terminal => store'[h].status # "active"]_vars

NonDecreasing(sq) == \A i \in 1 .. (Len(sq) - 1) : sq[i] <= sq[i + 1]

\* C2: a fetch that fails on every attempt is tried MAX_RETRIES + 1 times before
\* its error reaches main, and the delays waited between the attempts never shrink.
C2_RetryBound ==
  Retries(kind) =>
    /\ attempts <= MAX_RETRIES + 1
    /\ NonDecreasing(delays)
    /\ wpc = "failed" => (attempts = MAX_RETRIES + 1 /\ Len(delays) = MAX_RETRIES)

C2_Witness ==
  /\ kind = "magicedenLimit"
  /\ wpc = "failed"
  /\ attempts = 4
  /\ delays = << 1500, 3000, 4500 >>

\* C3: when the first empty page comes back on page fetch k, the walker makes
\* exactly k page fetches, and ends with one upsert per item of pages 1..k-1
\* and total equal to their number.
C3_EmptyPageEndsWalk ==
  firstEmptyAt # 0 =>
    /\ pageFetches = firstEmptyAt
    /\ wpc = "done" => (upserts = itemsBeforeEmpty /\ total = itemsBeforeEmpty)

\* the number of sub-ranges a pass over [from, to] has to query
NumChunks(from, to) == IF from > to THEN 0 ELSE ((to - from) \div (CHUNK + 1)) + 1

\* C4: a chunk whose log query throws does not end the scan: every sub-range
\* of the pass is still queried, in ascending order, and every entry a
\* query returned is posted.
C4_ChunkFailureIsolated ==
  /\ spc = "failed" => scanErr \in {"env", "rpc", "latestBlock"}
  /\ \A i \in 1 .. Len(queried) :
       /\ queried[i][1] <= queried[i][2]
       /\ queried[i][1] = (IF i = 1 THEN fromBlock ELSE queried[i - 1][2] + 1)
  /\ (spc = "done" \/ (spc = "chunk" /\ start > latestBlock)) =>
       Len(queried) = NumChunks(fromBlock, latestBlock)
  /\ spc \in {"chunk", "done"} => chunkPosts = chunkEvents

C4_Witness ==
  /\ failedChunk = 3
  /\ Len(queried) = 5
  /\ NumChunks(fromBlock, latestBlock) = 5
  /\ spc = "awaitPost"

SameOrder(a, b) ==
  /\ a.orderHash = b.orderHash
  /\ a.tokenId = b.tokenId
  /\ a.price = b.price
  /\ a.seller = b.seller
  /\ a.buyerAddress = b.buyerAddress
  /\ a.onChain = b.onChain
  /\ a.status = b.status

\* C5: a second saveOrder of the same normalized order leaves the stored
\* record as the first one wrote it, id and timestamps included.
C5_SecondWriteChangesNothing ==
  [][\A h \in DOMAIN store :
       SameOrder(store[h], store'[h]) => store'[h] = store[h]]_vars

\* C6: in the cursor walkers a page whose next cursor is absent, null or the
\* empty string is the last one: its items are all upserted and no further
\* fetch is made.
C6_EmptyCursorEndsPagination ==
  (IsCursor(kind) /\ pagesOk > 0 /\ pageNext \in {Absent, NullV, EmptyString}) =>
    /\ wpc \in {"items", "awaitSave", "itemDelay", "done"}
    /\ httpInFlight = 0
    /\ pageFetches = pagesOk
    /\ wpc = "done" => (items = << >> /\ upserts = received)

C6_Witness ==
  /\ IsCursor(kind)
  /\ pageNext = EmptyString
  /\ pageLen = 2
  /\ upserts = 2
  /\ wpc = "done"

\* C7: when a retrying fetcher gives up, the error handed to main carries the
\* fatal marker and wraps the message of the last failure.
C7_ExhaustionIsFatal ==
  (Retries(kind) /\ wpc = "failed") => (err.fatal /\ err.msg = lastFailure)

\* C8: a log entry whose decoding failed is skipped, not posted, and the
\* entries after it in the chunk are still posted.
C8_UndecodableEntrySkipped ==
  /\ spc = "awaitPost" => payload.orderHash # Absent
  /\ spc \in {"chunk", "done"} => events = << >>

\* C9: a failed write of one item never ends a run: every item received is
\* still handed to the store or the backend, and only a failed fetch or a
\* failed setup ends a run early.
C9_WriteFailureNotFatal ==
  /\ wpc = "failed" => lastFailure # "none"
  /\ wpc \in {"fetch", "awaitFetch", "retryWait", "done", "failed"} => upserts = received
  /\ spc = "failed" => scanErr \in {"env", "rpc", "latestBlock"}
  /\ spc \in {"chunk", "done"} => chunkPosts = chunkEvents

C9_Witness ==
  /\ wpc = "done"
  /\ exitCode = 0
  /\ writeErrors > 0
  /\ pagesOk >= 2
  /\ upserts = 2

C9_ScannerWitness ==
  /\ spc = "done"
  /\ scanExit = 0
  /\ eventsSeen = 2
  /\ totalActive + totalFulfilled + totalCancelled < eventsSeen

\* C10: the walker has at most one request in flight, and a page fetch is in
\* flight only when every item received so far has been upserted.
C10_Sequential ==
  /\ httpInFlight + Len(pending) <= 1
  /\ httpInFlight > 0 => (items = << >> /\ upserts = received)
  /\ wpc \in {"fetch", "awaitFetch", "retryWait"} => pending = << >>

C10_Witness ==
  /\ wpc = "awaitFetch"
  /\ httpInFlight = 1
  /\ pagesOk = 1
  /\ upserts = 2

\* C11: initProvider visits RPC_LIST in order and returns the first entry whose
\* getBlockNumber succeeds: every entry before the selected one was unset or was
\* probed and failed, and no entry after it is visited.
C11_FirstLiveEndpoint ==
  /\ spc = "probe" =>
       /\ provider = 0
       /\ Len(probed) = rpcIdx - 1
       /\ \A i \in 1 .. Len(probed) : probed[i] \in {"unset", "failed"}
  /\ spc = "latest" =>
       /\ provider = Len(probed)
       /\ probed[provider] = "ok"
       /\ \A i \in 1 .. (provider - 1) : probed[i] \in {"unset", "failed"}
       /\ \A i \in 2 .. (provider - 1) : probed[i] = "failed"

C11_Witness ==
  /\ spc = "latest"
  /\ provider = 3
  /\ probed = << "unset", "failed", "ok" >>

\* C12: when the configuration is incomplete, or no RPC_LIST entry answers the
\* probe, the scanner exits with code 1 and stays there, with no log query issued
\* and no event posted.
C12_SetupFailureIsFatal ==
  /\ []( ((provider = 0 /\ rpcIdx > RPC_LIST_LEN) \/ scanErr = "env") =>
           /\ spc = "failed"
           /\ scanExit = 1
           /\ queried = << >>
           /\ eventsSeen = 0
           /\ payload = NoPayload
           /\ totalActive + totalFulfilled + totalCancelled = 0 )
  /\ [][spc = "failed" => UNCHANGED << scannerVars, storeVars >>]_vars

C12_Witness ==
  /\ spc = "failed"
  /\ scanErr = "rpc"
  /\ probed = << "unset", "failed", "failed", "failed" >>

C12_EnvWitness ==
  /\ spc = "failed"
  /\ scanErr = "env"
  /\ scanExit = 1

\* C13: a page fetch whose retries are used up ends the run: the process exits
\* with code 1, nothing is fetched or upserted afterwards, and exit code 0 is
\* reached only through the end of pagination.
C13_ExhaustionAbortsRun ==
  /\ []( /\ wpc = "failed" =>
              /\ exitCode = 1
              /\ lastFailure # "none"
              /\ httpInFlight = 0
              /\ pending = << >>
         /\ exitCode = 0 <=> wpc = "done"
         /\ wpc = "done" =>
              /\ lastFailure = "none"
              /\ pagesOk > 0
              /\ items = << >>
              /\ httpInFlight = 0
              /\ pending = << >>
              /\ pageLen = 0 \/ (IsCursor(kind) /\ pageNext \in {Absent, NullV, EmptyString}) )
  /\ [][wpc = "failed" => UNCHANGED << walkerVars, storeVars >>]_vars

C13_Witness ==
  /\ kind = "magicedenLimit"
  /\ wpc = "failed"
  /\ exitCode = 1
  /\ pagesOk = 1
  /\ upserts = 2
  /\ attempts = MAX_RETRIES + 1

\* C14: the passes run in the order OrderValidated, OrderFulfilled,
\* OrderCancelled, and a pass starts only when the one before it has queried all
\* its sub-ranges and has no entry left to post, failed chunks included.
C14_PassesInOrder ==
  /\ []( /\ pass \in 1 .. 3
         /\ spc = "awaitPost" => payload.status = PassStatus(pass)
         /\ totalFulfilled > 0 => pass >= 2
         /\ totalCancelled > 0 => pass = 3
         /\ spc = "done" => pass = 3 )
  /\ [][pass' # pass =>
         /\ pass' = pass + 1
         /\ spc = "chunk"
         /\ Len(queried) = NumChunks(fromBlock, latestBlock)
         /\ events = << >>
         /\ payload = NoPayload
         /\ queried' = << >>]_vars

C14_Witness ==
  /\ pass = 3
  /\ failedChunk = 1
  /\ spc = "awaitPost"
  /\ totalActive = 1
  /\ payload.status = "cancelled"

\* C15: every sub-range handed to a log query covers at most CHUNK blocks.
C15_ChunkSizeBound ==
  \A i \in 1 .. Len(queried) : queried[i][2] - queried[i][1] + 1 <= CHUNK

\* C16: before every HTTP fetch request but the first of a run, a delay has been
\* waited since the request before it.
C16_EveryFetchThrottled ==
  (wpc = "fetch" /\ (pagesOk > 0 \/ attempts > 0)) => waited

\* the price p is the raw amount in whole units: p * 10^d is the raw amount again
WholeUnits(p, raw, d) ==
  /\ p.mant > 0
  /\ p.exp + d >= 0
  /\ DigitsOf(p.mant) \o [i \in 1 .. (p.exp + d) |-> 0] = raw

WalkerDecimals == IF IsCursor(kind) THEN ETH_DECIMALS ELSE DECIMALS

\* C17: the price saveOrder writes is the raw amount divided by 10 to the
\* decimals of the asset: 1000000000 at 9 decimals is stored as 1, and
\* 2500000000000000000 at 18 decimals as 2.5.
C17_PriceInWholeUnits ==
  /\ \A i \in 1 .. Len(pending) :
       WholeUnits(pending[i].price, pending[i].seaportOrder.price, WalkerDecimals)
  /\ \A h \in DOMAIN store :
       /\ WholeUnits(store[h].price, store[h].seaportOrder.price, WalkerDecimals)
       /\ (store[h].seaportOrder.price = << 1, 0, 0, 0, 0, 0, 0, 0, 0, 0 >> /\ ~IsCursor(kind)) =>
            (store[h].price = [mant |-> 1, exp |-> 0] /\ NumberToString(store[h].price) = "1")
       /\ (store[h].seaportOrder.price = RawAmount(25, 17) /\ IsCursor(kind)) =>
            (store[h].price = [mant |-> 25, exp |-> -1] /\ NumberToString(store[h].price) = "2.5")

C17_Witness ==
  /\ kind = "magicedenSync"
  /\ \E h \in DOMAIN store :
       /\ store[h].seaportOrder.price = << 1, 0, 0, 0, 0, 0, 0, 0, 0, 0 >>
       /\ store[h].price = [mant |-> 1, exp |-> 0]

C17_EtherWitness ==
  /\ kind = "openseaSync"
  /\ \E h \in DOMAIN store :
       /\ Len(store[h].seaportOrder.price) = 19
       /\ store[h].price = [mant |-> 25, exp |-> -1]

SameTriple(a, b) ==
  /\ a.tokenId = b.tokenId
  /\ a.seller = b.seller
  /\ a.price = b.price

\* C18: in the Magic Eden walkers two listings with the same tokenId, lower-cased
\* seller and normalized price get the same orderHash, so the store holds one
\* record for them, and after an upsert it is the row of the entry written last.
C18_SynthesizedIdOfTriple ==
  /\ []( ~IsCursor(kind) =>
           /\ \A a, b \in {store[h] : h \in DOMAIN store} \cup {pending[i] : i \in 1 .. Len(pending)} :
                SameTriple(a, b) => a.orderHash = b.orderHash
           /\ \A g, h \in DOMAIN store : SameTriple(store[g], store[h]) => g = h )
  /\ [][(~IsCursor(kind) /\ store' # store) =>
           /\ pending # << >>
           /\ DOMAIN store' = DOMAIN store \cup {Head(pending).orderHash}
           /\ store'[Head(pending).orderHash] = Head(pending)
           /\ \A h \in DOMAIN store : SameTriple(store[h], Head(pending)) =>
                DOMAIN store' = DOMAIN store]_vars

C18_Witness ==
  /\ kind = "magicedenSync"
  /\ DOMAIN store = {"t1_0xab_1"}
  /\ store["t1_0xab_1"].seaportOrder.seller = "0xAB"
  /\ pending # << >>
  /\ Head(pending).seaportOrder.seller = "0xab"
  /\ Head(pending).seaportOrder.order_hash = "h2"
  /\ Head(pending).orderHash = "t1_0xab_1"

\* C19: the createdAt of a stored record never changes once the record exists.
C19_CreatedAtFixed ==
  [][\A h \in DOMAIN store : store'[h].createdAt = store[h].createdAt]_vars

PassOver == spc = "done" \/ (spc = "chunk" /\ start > latestBlock)

\* the blocks at and next to the borders of the range and of the sub-ranges
BorderBlocks ==
  LET b == {fromBlock, latestBlock}
             \cup {queried[i][1] : i \in 1 .. Len(queried)}
             \cup {queried[i][2] : i \in 1 .. Len(queried)}
  IN b \cup {x - 1 : x \in b} \cup {x + 1 : x \in b}

SubRangesWith(b) == {i \in 1 .. Len(queried) : queried[i][1] <= b /\ b <= queried[i][2]}

\* C20: the sub-ranges of a pass are queried in ascending order, each starts one
\* block after the one before it ends, the first starts at from and the last
\* ends at to, so a block is queried once if it is in [from, to] and never
\* otherwise; no query is made when from > to; and the run comes to its end
\* whatever the chunk queries do.
C20_ChunksPartitionRange ==
  /\ []( /\ \A i \in 1 .. Len(queried) :
              /\ queried[i][1] <= queried[i][2]
              /\ fromBlock <= queried[i][1]
              /\ queried[i][2] <= latestBlock
              /\ queried[i][1] = (IF i = 1 THEN fromBlock ELSE queried[i - 1][2] + 1)
         /\ PassOver =>
              /\ IF fromBlock > latestBlock
                 THEN queried = << >>
                 ELSE queried # << >> /\ queried[Len(queried)][2] = latestBlock
              /\ \A b \in BorderBlocks :
                   Cardinality(SubRangesWith(b)) =
                     (IF fromBlock <= b /\ b <= latestBlock THEN 1 ELSE 0) )
  /\ <>(spc \in {"done", "failed"})

C20_Witness ==
  /\ PassOver
  /\ pass = 2
  /\ fromBlock = 7
  /\ Len(queried) = 5
  /\ failedChunk = 5
  /\ eventsSeen = 0

C20_EmptyRangeWitness ==
  /\ spc = "done"
  /\ fromBlock = 7
  /\ latestBlock = 3
  /\ queried = << >>

\* C21: when a scanner run in which nothing failed ends, every order hash that
\* an OrderFulfilled or OrderCancelled entry of the run carried is stored with
\* status fulfilled or cancelled, not active.
C21_TerminalAtEndOfRun ==
  spc = "done" =>
    \A h \in terminalSeen : h \in DOMAIN store /\ store[h].status \in Terminal

C21_Witness ==
  /\ spc = "done"
  /\ totalActive = 1
  /\ totalFulfilled = 1
  /\ terminalSeen = {"h1"}
  /\ DOMAIN store = {"h1"}
  /\ store["h1"].status = "fulfilled"

\* C22: against a static source an offset walker comes to its end, its offset
\* never goes back and grows with every non-empty page, and its k-th upsert is
\* of the k-th listing of the source: when it ends normally every listing has
\* been handed to the store once, in source order.
C22_OffsetWalkTerminates ==
  /\ []( /\ upserts <= Len(source.list)
         /\ \A i \in 1 .. Len(pending) : pending[i].seaportOrder = source.list[upserts]
         /\ \A i \in 1 .. Len(items) : items[i] = source.list[upserts + i]
         /\ (wpc = "items" /\ pagesOk > 0) => offset + pageLen = upserts + Len(items)
         /\ wpc \in {"fetch", "awaitFetch", "retryWait"} => offset = upserts
         /\ wpc = "done" => (upserts = Len(source.list) /\ total = Len(source.list)) )
  /\ [][ /\ offset' >= offset
         /\ (wpc = "items" /\ wpc' = "fetch") => offset' > offset
         /\ upserts' \in {upserts, upserts + 1} ]_vars
  /\ <>(wpc \in {"done", "failed"})

C22_Witness ==
  /\ kind = "magicedenLimit"
  /\ wpc = "done"
  /\ Len(source.list) = 3
  /\ source.list[1] # source.list[2]
  /\ source.size = 2
  /\ offset = 3
  /\ pagesOk = 3
  /\ upserts = 3

\* the retries the current fetchListings call has left
RetriesLeft == IF RetryStyle(kind) = "countdown" THEN retry ELSE MAX_RETRIES - retry

\* C23: the retries left depend on the attempts of the current fetchListings
\* call only, whatever earlier calls used up; a retry sends the cursor and
\* offset of the attempt that failed; and the run is aborted only by a call that
\* has made MAX_RETRIES + 1 attempts itself.
C23_RetryBudgetPerCall ==
  /\ []( Retries(kind) =>
           /\ wpc \in {"fetch", "awaitFetch", "retryWait", "failed"} =>
                RetriesLeft = MAX_RETRIES - Len(delays)
           /\ (wpc = "fetch" /\ attempts = 0) => RetriesLeft = MAX_RETRIES
           /\ attempts > 0 => sentAt = [cursor |-> cursor, offset |-> offset]
           /\ wpc = "failed" => attempts = MAX_RETRIES + 1 )
  /\ [][(Retries(kind) /\ attempts > 0 /\ attempts' = attempts + 1) =>
           sentAt' = sentAt]_vars

C23_Witness ==
  /\ kind = "openseaSync"
  /\ retriedBefore
  /\ pagesOk = 2
  /\ wpc = "items"
  /\ sentAt.cursor = "c1"
  /\ exitCode = -1

C23_FullBudgetWitness ==
  /\ kind = "magicedenLimit"
  /\ retriedBefore
  /\ wpc = "awaitFetch"
  /\ attempts = MAX_RETRIES + 1
  /\ sentAt.offset = 2

====
